---- MODULE Spec2Model ----
(***************************************************************************)
(* Model of project.ipynb: the handDetector class (findHands,              *)
(* findPosition, fingersUp, getHandType) and the frame loop of main().     *)
(*                                                                         *)
(* Python values are modelled as follows.                                  *)
(*   - a Python list is a TLA+ sequence; Python index i is position i+1    *)
(*     (PyAt), and an index outside the list raises IndexError;            *)
(*   - None is the string "<None>", a falsy value like "" and [];          *)
(*   - a normalized landmark coordinate (a float in [0,1]) is an exact     *)
(*     fraction <<num, den>>; int(lm.x * w) truncates (Pixel);             *)
(*   - results.multi_hand_landmarks / multi_handedness are sequences, the  *)
(*     empty sequence standing for the provider's None;                    *)
(*   - an exception that leaves main() ends the run: pc = "raised".        *)
(*                                                                         *)
(* Spec   is main(): the frame loop, one action per statement.             *)
(* SpecFn is one direct call of fingersUp (and the count of its result,    *)
(*        as main does) on every input of a bounded grid, lists shorter    *)
(*        than 21 entries and unknown handedness included.                 *)
(***************************************************************************)
EXTENDS Integers, Sequences, FiniteSets

VARIABLES
    pc,            \* the statement of main() that runs next
    img,           \* the frame returned by cap.read(), or None
    results,       \* detector.results, set by findHands
    tipIds,        \* detector.tipIds
    totalFingers,  \* main's totalFingers
    handIndex,     \* main's loop variable
    lmList,        \* main's lmList
    handType,      \* main's handType
    fingers,       \* main's fingers
    shown,         \* the count last drawn by putText and shown; -1: none yet
    exc,           \* the exception that ended the run, "" if none
    framesRead,    \* history: number of cap.read() calls so far
    keySeen,       \* history: cv2.waitKey has returned a key press
    calledFor,     \* history: hand indices of this frame fingersUp was called for
    memo           \* history: one earlier fingersUp call <<lmList, handType, outcome, frame>>

vars == <<pc, img, results, tipIds, totalFingers, handIndex, lmList, handType,
          fingers, shown, exc, framesRead, keySeen, calledFor, memo>>

\* ---------------------------------------------------------------- bounds
MaxFrames == 2
MaxCoord == 2

\* ------------------------------------------------------- Python helpers
None == "<None>"

\* "if v:" for a list (None or [] is falsy) and for a label (None or "" is falsy)
TruthyList(v) == Len(v) > 0

TruthyLabel(v) == v # None /\ v # ""

\* l[i] of Python: negative indices count from the end.
InRange(l, i) == -Len(l) <= i /\ i < Len(l)

PyAt(l, i) == IF i >= 0 THEN l[i + 1] ELSE l[Len(l) + i + 1]

\* list.count(v)
Count(l, v) == Cardinality({i \in DOMAIN l : l[i] = v})

Return(v) == [kind |-> "return", value |-> v]

Raise(e) == [kind |-> "raise", value |-> e]

\* ----------------------------------------------------------- handDetector
maxHands == 2

tipIdsInit == <<4, 8, 12, 16, 20>>

\* img.shape of a camera frame: (h, w, c)
imgShape == <<480, 640, 3>>

\* int(lm.x * w)
Pixel(fr, dim) == (fr[1] * dim) \div fr[2]

findPosition(handNo) ==
    IF TruthyList(results.multi_hand_landmarks)
    THEN LET myHand == PyAt(results.multi_hand_landmarks, handNo)
         IN  [k \in 1..Len(myHand) |->
                 <<k - 1, Pixel(myHand[k].x, imgShape[2]), Pixel(myHand[k].y, imgShape[1])>>]
    ELSE <<>>

getHandType(hIndex) ==
    IF TruthyList(results.multi_handedness)
    THEN PyAt(results.multi_handedness, hIndex)
    ELSE None

\* The thumb: lmList[tipIds[0]][1] against lmList[tipIds[0] - 1][1].
thumbUp_ignoresHand(l, hType) ==
    IF PyAt(PyAt(l, PyAt(tipIds, 0)), 1) < PyAt(PyAt(l, PyAt(tipIds, 0) - 1), 1) THEN 1 ELSE 0

thumbUp_mirrored(l, hType) ==
    IF hType = "Right"
    THEN (IF PyAt(PyAt(l, PyAt(tipIds, 0)), 1) > PyAt(PyAt(l, PyAt(tipIds, 0) - 1), 1) THEN 1 ELSE 0)
    ELSE (IF PyAt(PyAt(l, PyAt(tipIds, 0)), 1) < PyAt(PyAt(l, PyAt(tipIds, 0) - 1), 1) THEN 1 ELSE 0)

thumbUp(l, hType) ==
    IF hType = "Right"
    THEN (IF PyAt(PyAt(l, PyAt(tipIds, 0)), 1) < PyAt(PyAt(l, PyAt(tipIds, 0) - 1), 1) THEN 1 ELSE 0)
    ELSE (IF PyAt(PyAt(l, PyAt(tipIds, 0)), 1) > PyAt(PyAt(l, PyAt(tipIds, 0) - 1), 1) THEN 1 ELSE 0)

\* One of the other fingers: lmList[tipIds[id]][2] against lmList[tipIds[id] - 2][2].
fingerUp_tieCounts(l, id) ==
    IF PyAt(PyAt(l, PyAt(tipIds, id)), 2) <= PyAt(PyAt(l, PyAt(tipIds, id) - 2), 2) THEN 1 ELSE 0

fingerUp(l, id) ==
    IF PyAt(PyAt(l, PyAt(tipIds, id)), 2) < PyAt(PyAt(l, PyAt(tipIds, id) - 2), 2) THEN 1 ELSE 0

\* for id in range(1, 5): fingers.append(...); return fingers
RECURSIVE fingerLoop(_, _, _)
RECURSIVE fingerLoop_stopsEarly(_, _, _)
RECURSIVE fingerLoop_skipsMissing(_, _, _)

fingerLoop_stopsEarly(l, id, acc) ==
    IF id >= 4 THEN Return(acc)
    ELSE IF ~(InRange(l, PyAt(tipIds, id)) /\ InRange(l, PyAt(tipIds, id) - 2))
         THEN Raise("IndexError")
         ELSE fingerLoop_stopsEarly(l, id + 1, Append(acc, fingerUp(l, id)))

fingerLoop_skipsMissing(l, id, acc) ==
    IF id >= 5 THEN Return(acc)
    ELSE IF ~(InRange(l, PyAt(tipIds, id)) /\ InRange(l, PyAt(tipIds, id) - 2))
         THEN fingerLoop_skipsMissing(l, id + 1, Append(acc, 0))
         ELSE fingerLoop_skipsMissing(l, id + 1, Append(acc, fingerUp(l, id)))

fingerLoop(l, id, acc) ==
    IF id >= 5 THEN Return(acc)
    ELSE IF ~(InRange(l, PyAt(tipIds, id)) /\ InRange(l, PyAt(tipIds, id) - 2))
         THEN Raise("IndexError")
         ELSE fingerLoop(l, id + 1, Append(acc, fingerUp(l, id)))

fingersUp(l, hType) ==
    IF ~(InRange(l, PyAt(tipIds, 0)) /\ InRange(l, PyAt(tipIds, 0) - 1))
    THEN Raise("IndexError")
    ELSE fingerLoop(l, 1, <<thumbUp(l, hType)>>)

\* ------------------------------------------- the hand-landmark provider
\* A hand of 21 normalized landmarks. tx, rx: x of landmarks 4 and 3;
\* tys, rys: y of the tips 8, 12, 16, 20 and of the joints 6, 10, 14, 18.
MkHand(tx, rx, tys, rys) ==
    [k \in 1..21 |->
        [x |-> IF k - 1 = 4 THEN tx ELSE IF k - 1 = 3 THEN rx ELSE <<1, 2>>,
         y |-> IF k - 1 \in {8, 12, 16, 20} THEN tys[(k - 1) \div 4 - 1]
               ELSE IF k - 1 \in {6, 10, 14, 18} THEN rys[(k - 2) \div 4]
               ELSE <<1, 2>>]]

\* thumb tip x=300, ref x=250; index 120/200, middle 210/180, ring 300/150, pinky 50/300
ExampleHand ==
    MkHand(<<300, 640>>, <<250, 640>>,
           <<(<<120, 480>>), (<<210, 480>>), (<<300, 480>>), (<<50, 480>>)>>,
           <<(<<200, 480>>), (<<180, 480>>), (<<150, 480>>), (<<300, 480>>)>>)

\* every tip beyond its joint; the thumb tip left of its joint
OpenHand ==
    MkHand(<<1, 4>>, <<1, 2>>,
           <<(<<1, 4>>), (<<1, 4>>), (<<1, 4>>), (<<1, 4>>)>>,
           <<(<<1, 2>>), (<<1, 2>>), (<<1, 2>>), (<<1, 2>>)>>)

\* thumb level with its joint; index level with its joint; the middle tip
\* above its joint by less than a pixel; ring and pinky curled
Fist ==
    MkHand(<<1, 2>>, <<1, 2>>,
           <<(<<1, 2>>), (<<1, 2>>), (<<3, 4>>), (<<3, 4>>)>>,
           <<(<<1, 2>>), (<<1001, 2000>>), (<<1, 2>>), (<<1, 2>>)>>)

SceneHands == {ExampleHand, OpenHand, Fist}

Labels == {"Left", "Right", ""}

\* hands.process(imgRGB): up to maxHands hands, and either no handedness
\* list at all or one classification label per hand.
Detections ==
    UNION {
        {[multi_hand_landmarks |-> hs, multi_handedness |-> ls] :
            hs \in [1..n -> SceneHands], ls \in [1..n -> Labels] \cup {<<>>}}
        : n \in 0..maxHands}

NoResults == [multi_hand_landmarks |-> <<>>, multi_handedness |-> <<>>]

\* ------------------------------------------------------------------ main
Init ==
    /\ pc = "read"
    /\ img = None
    /\ results = NoResults
    /\ tipIds = tipIdsInit
    /\ totalFingers = 0
    /\ handIndex = 0
    /\ lmList = <<>>
    /\ handType = None
    /\ fingers = <<>>
    /\ shown = -1
    /\ exc = ""
    /\ framesRead = 0
    /\ keySeen = FALSE
    /\ calledFor = {}
    /\ memo = <<>>

\* success, img = cap.read()
Read ==
    /\ pc = "read"
    /\ framesRead < MaxFrames
    /\ \E im \in {"frame", None} : img' = im
    /\ framesRead' = framesRead + 1
    /\ pc' = "findHands"
    /\ UNCHANGED <<results, tipIds, totalFingers, handIndex, lmList, handType,
                   fingers, shown, exc, keySeen, calledFor, memo>>

\* img = detector.findHands(img): cv2.cvtColor raises on a frame that was
\* not read; otherwise the provider's detections are stored in results.
FindHands ==
    /\ pc = "findHands"
    /\ IF img = None
       THEN /\ pc' = "raised"
            /\ exc' = "cv2.error"
            /\ UNCHANGED <<results, calledFor>>
       ELSE /\ \E r \in Detections : results' = r
            /\ calledFor' = {}
            /\ pc' = "reset"
            /\ UNCHANGED exc
    /\ UNCHANGED <<img, tipIds, totalFingers, handIndex, lmList, handType,
                   fingers, shown, framesRead, keySeen, memo>>

\* The first statement of the for loop's next iteration, or the statement
\* after the loop.
AfterHand(i) ==
    IF i + 1 < Len(results.multi_hand_landmarks)
    THEN [pc |-> "findPosition", handIndex |-> i + 1]
    ELSE [pc |-> "putText", handIndex |-> i]

ResetTotal_keepsOld ==
    /\ pc = "reset"
    /\ totalFingers' = totalFingers
    /\ IF TruthyList(results.multi_hand_landmarks)
       THEN pc' = "findPosition" /\ handIndex' = 0
       ELSE pc' = "putText" /\ UNCHANGED handIndex
    /\ UNCHANGED <<img, results, tipIds, lmList, handType, fingers, shown, exc,
                   framesRead, keySeen, calledFor, memo>>

\* totalFingers = 0; if detector.results.multi_hand_landmarks: for ...
ResetTotal ==
    /\ pc = "reset"
    /\ totalFingers' = 0
    /\ IF TruthyList(results.multi_hand_landmarks)
       THEN pc' = "findPosition" /\ handIndex' = 0
       ELSE pc' = "putText" /\ UNCHANGED handIndex
    /\ UNCHANGED <<img, results, tipIds, lmList, handType, fingers, shown, exc,
                   framesRead, keySeen, calledFor, memo>>

\* lmList = detector.findPosition(img, handIndex)
FindPosition ==
    /\ pc = "findPosition"
    /\ lmList' = findPosition(handIndex)
    /\ pc' = "getHandType"
    /\ UNCHANGED <<img, results, tipIds, totalFingers, handIndex, handType,
                   fingers, shown, exc, framesRead, keySeen, calledFor, memo>>

GetHandType_noGuard ==
    /\ pc = "getHandType"
    /\ handType' = getHandType(handIndex)
    /\ pc' = "fingersUp"
    /\ UNCHANGED <<img, results, tipIds, totalFingers, handIndex, lmList,
                   fingers, shown, exc, framesRead, keySeen, calledFor, memo>>

\* handType = detector.getHandType(handIndex); if handType:
GetHandType ==
    /\ pc = "getHandType"
    /\ handType' = getHandType(handIndex)
    /\ IF TruthyLabel(handType')
       THEN pc' = "fingersUp" /\ UNCHANGED handIndex
       ELSE pc' = AfterHand(handIndex).pc /\ handIndex' = AfterHand(handIndex).handIndex
    /\ UNCHANGED <<img, results, tipIds, totalFingers, lmList,
                   fingers, shown, exc, framesRead, keySeen, calledFor, memo>>

\* What the history variables record of a call.
Recorded(out) ==
    /\ calledFor' = calledFor \cup {handIndex}
    /\ memo' \in IF memo = <<>> THEN {<<>>, <<lmList, handType, out, framesRead>>} ELSE {memo}

FingersUp_consumesTipIds ==
    /\ pc = "fingersUp"
    /\ LET out == fingersUp(lmList, handType)
       IN  /\ IF out.kind = "raise"
              THEN pc' = "raised" /\ exc' = out.value /\ UNCHANGED fingers
              ELSE pc' = "count" /\ fingers' = out.value /\ UNCHANGED exc
           /\ Recorded(out)
    /\ tipIds' = <<PyAt(tipIds, 4), PyAt(tipIds, 1), PyAt(tipIds, 2), PyAt(tipIds, 3), PyAt(tipIds, 0)>>
    /\ UNCHANGED <<img, results, totalFingers, handIndex, lmList, handType,
                   shown, framesRead, keySeen>>

\* fingers = detector.fingersUp(lmList, handType)
FingersUp ==
    /\ pc = "fingersUp"
    /\ LET out == fingersUp(lmList, handType)
       IN  /\ IF out.kind = "raise"
              THEN pc' = "raised" /\ exc' = out.value /\ UNCHANGED fingers
              ELSE pc' = "count" /\ fingers' = out.value /\ UNCHANGED exc
           /\ Recorded(out)
    /\ UNCHANGED <<img, results, tipIds, totalFingers, handIndex, lmList, handType,
                   shown, framesRead, keySeen>>

\* totalFingers += fingers.count(1)
CountFingers ==
    /\ pc = "count"
    /\ totalFingers' = totalFingers + Count(fingers, 1)
    /\ pc' = AfterHand(handIndex).pc
    /\ handIndex' = AfterHand(handIndex).handIndex
    /\ UNCHANGED <<img, results, tipIds, lmList, handType, fingers, shown, exc,
                   framesRead, keySeen, calledFor, memo>>

\* cv2.putText(img, f'Total Fingers: {totalFingers}', ...); cv2.imshow("Image", img)
Display ==
    /\ pc = "putText"
    /\ shown' = totalFingers
    /\ pc' = "waitKey"
    /\ UNCHANGED <<img, results, tipIds, totalFingers, handIndex, lmList, handType,
                   fingers, exc, framesRead, keySeen, calledFor, memo>>

\* cv2.waitKey(1): returns -1 or the code of a pressed key; the value is
\* dropped and the while True loop goes on.
WaitKey ==
    /\ pc = "waitKey"
    /\ \E key \in {-1, 113} : keySeen' = (keySeen \/ key # -1)
    /\ pc' = "read"
    /\ UNCHANGED <<img, results, tipIds, totalFingers, handIndex, lmList, handType,
                   fingers, shown, exc, framesRead, calledFor, memo>>

Next ==
    \/ Read
    \/ FindHands
    \/ ResetTotal
    \/ FindPosition
    \/ GetHandType
    \/ FingersUp
    \/ CountFingers
    \/ Display
    \/ WaitKey

Spec == Init /\ [][Next]_vars

\* ------------------------------------------------ a direct call of fingersUp
Coords == 0..MaxCoord

\* A landmark list in pixel coordinates, as findPosition builds it:
\* [id, cx, cy] for id = 0..20. tx: x of landmark 4 and of the other tips;
\* tys: y of the tips 8, 12, 16, 20 (tys[1] is also the y of landmark 4);
\* r: every other coordinate, the reference joints' included.
PixelList(tx, tys, r) ==
    [k \in 1..21 |->
        <<k - 1,
          IF k - 1 \in {4, 8, 12, 16, 20} THEN tx ELSE r,
          IF k - 1 \in {8, 12, 16, 20} THEN tys[(k - 1) \div 4 - 1]
          ELSE IF k - 1 = 4 THEN tys[1] ELSE r>>]

FullLists == {PixelList(tx, tys, r) : tx \in Coords, tys \in [1..4 -> Coords], r \in Coords}

\* Lists with fewer than 21 entries, the empty list of findPosition included.
ShortLists == {SubSeq(PixelList(tx, tys, 1), 1, n) :
                  tx \in Coords, tys \in [1..4 -> Coords], n \in 0..20}

HandTypes == {"Left", "Right", None, ""}

InitFn ==
    /\ pc = "fingersUp"
    /\ lmList \in FullLists \cup ShortLists
    /\ handType \in HandTypes
    /\ img = "frame"
    /\ results = NoResults
    /\ tipIds = tipIdsInit
    /\ totalFingers = 0
    /\ handIndex = 0
    /\ fingers = <<>>
    /\ shown = -1
    /\ exc = ""
    /\ framesRead = 1
    /\ keySeen = FALSE
    /\ calledFor = {}
    /\ memo = <<>>

NextFn ==
    \/ FingersUp
    \/ CountFingers

SpecFn == InitFn /\ [][NextFn]_vars

\* ================================================================ claims
\* The call of fingersUp has ended (returned or raised).
Called == pc # "fingersUp"

ValidInput == Len(lmList) = 21 /\ handType \in {"Left", "Right"}

\* x and y of landmark i of the current landmark list
LmX(i) == lmList[i + 1][2]

LmY(i) == lmList[i + 1][3]

Flag(b) == IF b THEN 1 ELSE 0

\* C1: for a 21-entry list and handedness Left or Right, each non-thumb
\* entry (tips 8, 12, 16, 20 against joints 6, 10, 14, 18) is set exactly
\* when the tip's y is strictly less than the joint's y, whatever the
\* handedness.
C1_NonThumbRule ==
    (Called /\ ValidInput) =>
        /\ pc # "raised"
        /\ fingers[2] = Flag(LmY(8) < LmY(6))
        /\ fingers[3] = Flag(LmY(12) < LmY(10))
        /\ fingers[4] = Flag(LmY(16) < LmY(14))
        /\ fingers[5] = Flag(LmY(20) < LmY(18))

C1_Witness ==
    /\ pc = "count"
    /\ ValidInput
    /\ LmY(8) < LmY(6) /\ LmY(12) = LmY(10) /\ LmY(16) > LmY(14) /\ LmY(20) < LmY(18)
    /\ fingers[2] = 1 /\ fingers[3] = 0 /\ fingers[4] = 0 /\ fingers[5] = 1

\* C2: the thumb entry compares only x of landmark 4 with x of landmark 3:
\* Right: set exactly when tip x < joint x; Left: exactly when tip x > joint
\* x; equal x gives 0 for both.
C2_ThumbRule ==
    (Called /\ ValidInput) =>
        /\ pc # "raised"
        /\ handType = "Right" => fingers[1] = Flag(LmX(4) < LmX(3))
        /\ handType = "Left" => fingers[1] = Flag(LmX(4) > LmX(3))
        /\ LmX(4) = LmX(3) => fingers[1] = 0

C2_Witness ==
    /\ pc = "count"
    /\ ValidInput
    /\ handType = "Left"
    /\ LmX(4) < LmX(3)
    /\ LmY(4) > LmY(3)
    /\ fingers[1] = 0

\* C3: a call with a handedness other than Left or Right signals an error
\* and returns no vector.
C3_UnknownHandednessRaises ==
    (Called /\ handType \notin {"Left", "Right"}) => (pc = "raised" /\ fingers = <<>>)

\* C5: for valid input the result has exactly 5 entries, each 0 or 1, in the
\* order thumb (landmarks 4, 3), index (8), middle (12), ring (16), pinky (20).
C5_VectorShape ==
    (Called /\ ValidInput) =>
        /\ pc # "raised"
        /\ Len(fingers) = 5
        /\ \A i \in 1..5 : fingers[i] \in {0, 1}
        /\ fingers = << Flag(IF handType = "Right" THEN LmX(4) < LmX(3) ELSE LmX(4) > LmX(3)),
                        Flag(LmY(8) < LmY(6)), Flag(LmY(12) < LmY(10)),
                        Flag(LmY(16) < LmY(14)), Flag(LmY(20) < LmY(18)) >>

C5_Witness ==
    /\ pc = "count"
    /\ ValidInput
    /\ fingers = <<1, 0, 1, 0, 0>>

\* C7: a call with a list of fewer than 21 entries raises (IndexError) and
\* leaves no vector, partial or default, with the caller.
C7_ShortListRaises ==
    (Called /\ Len(lmList) < 21) => (pc = "raised" /\ exc = "IndexError" /\ fingers = <<>>)

C7_Witness ==
    /\ pc = "raised"
    /\ Len(lmList) = 9
    /\ handType = "Right"
    /\ exc = "IndexError"
    /\ fingers = <<>>

\* ------------------------------------------------------ claims about main
\* The landmark list of the end-to-end example.
IsExample ==
    /\ Len(lmList) = 21
    /\ LmX(4) = 300 /\ LmX(3) = 250
    /\ LmY(8) = 120 /\ LmY(6) = 200
    /\ LmY(12) = 210 /\ LmY(10) = 180
    /\ LmY(16) = 300 /\ LmY(14) = 150
    /\ LmY(20) = 50 /\ LmY(18) = 300

\* C4 as stated: the example Right hand gives [1, 1, 0, 0, 1] and adds 3.
C4_Original ==
    [][(pc = "count" /\ IsExample /\ handType = "Right") =>
          (fingers = <<1, 1, 0, 0, 1>> /\ totalFingers' = totalFingers + 3)]_vars

\* C4 amended: the example Right hand (thumb tip x=300 right of its joint
\* x=250) gives [0, 1, 0, 0, 1] and adds 2 to the frame's count.
C4_Amended ==
    [][(pc = "count" /\ IsExample /\ handType = "Right") =>
          (fingers = <<0, 1, 0, 0, 1>> /\ totalFingers' = totalFingers + 2)]_vars

C4_Witness ==
    /\ pc = "putText"
    /\ Len(results.multi_hand_landmarks) = 1
    /\ IsExample
    /\ handType = "Right"
    /\ fingers = <<0, 1, 0, 0, 1>>
    /\ totalFingers = 2

\* Hand i (Python index) of the current frame has a handedness label.
Labelled(i) ==
    /\ Len(results.multi_handedness) > 0
    /\ results.multi_handedness[i + 1] \notin {None, ""}

HandIndices == {i \in 0..(maxHands - 1) : i < Len(results.multi_hand_landmarks)}

\* Landmark j of hand i of the current frame, in pixels.
PxX(i, j) == (results.multi_hand_landmarks[i + 1][j + 1].x[1] * imgShape[2])
                \div results.multi_hand_landmarks[i + 1][j + 1].x[2]

PxY(i, j) == (results.multi_hand_landmarks[i + 1][j + 1].y[1] * imgShape[1])
                \div results.multi_hand_landmarks[i + 1][j + 1].y[2]

\* The raised fingers of every labelled hand of the current frame, as
\* (hand, finger) pairs, by the geometric rules.
RaisedInFrame ==
    {hf \in HandIndices \X (0..4) :
        /\ Labelled(hf[1])
        /\ IF hf[2] = 0
           THEN IF results.multi_handedness[hf[1] + 1] = "Right"
                THEN PxX(hf[1], 4) < PxX(hf[1], 3)
                ELSE PxX(hf[1], 4) > PxX(hf[1], 3)
           ELSE PxY(hf[1], 4 * hf[2] + 4) < PxY(hf[1], 4 * hf[2] + 2)}

\* C6: the count displayed for a frame is the number of raised fingers over
\* the hands of that frame alone: 0 and no error for a frame without hands,
\* whatever the earlier frames held.
C6_CountOfThisFrame ==
    pc = "waitKey" =>
        /\ exc = ""
        /\ shown = Cardinality(RaisedInFrame)
        /\ Len(results.multi_hand_landmarks) = 0 => shown = 0

C6_Witness ==
    /\ pc = "waitKey"
    /\ framesRead = 2
    /\ memo # <<>>
    /\ memo[4] = 1
    /\ Len(results.multi_hand_landmarks) = 0
    /\ shown = 0

\* C8: a call of fingersUp leaves the landmark list, tipIds and the stored
\* detection results as they were, and a call with the arguments of an
\* earlier call has the earlier call's outcome.
C8_NoSideEffects ==
    [][pc = "fingersUp" =>
          /\ lmList' = lmList
          /\ handType' = handType
          /\ tipIds' = tipIds
          /\ results' = results
          /\ (memo # <<>> /\ memo[1] = lmList /\ memo[2] = handType) =>
                 (pc' = "count" /\ memo[3] = Return(fingers'))]_vars

C8_Witness ==
    /\ pc = "count"
    /\ framesRead = 2
    /\ memo # <<>>
    /\ memo[4] = 1
    /\ memo[1] = lmList
    /\ memo[2] = handType
    /\ memo[3] = Return(fingers)
    /\ tipIds = <<4, 8, 12, 16, 20>>

\* C9: once waitKey has read a key press, no further frame is read.
C9_StopsOnKey ==
    [][keySeen => framesRead' = framesRead]_vars

\* C10: fingersUp is called only with a non-empty label, that of the hand at
\* hand; when the frame is displayed fingersUp has been called for exactly
\* the labelled hands of the frame, and the count is at most 5 per labelled
\* hand.
C10_UnlabelledSkipped ==
    /\ pc \in {"fingersUp", "count"} =>
          /\ handType \notin {None, ""}
          /\ Labelled(handIndex)
          /\ handType = results.multi_handedness[handIndex + 1]
    /\ pc = "waitKey" =>
          /\ calledFor = {i \in HandIndices : Labelled(i)}
          /\ shown <= 5 * Cardinality({i \in HandIndices : Labelled(i)})

C10_Witness ==
    /\ pc = "waitKey"
    /\ Len(results.multi_hand_landmarks) = 2
    /\ results.multi_handedness = <<"", "Right">>
    /\ calledFor = {1}
    /\ shown > 0

====
